---- MODULE Spec2Model ----
(***************************************************************************)
(* Client-side session manager (api/auth, hooks/use-auth) and Instagram    *)
(* OAuth callback processor (InstagramConnectDialog, App) of the canvas    *)
(* dashboard.                                                              *)
(*                                                                         *)
(* JavaScript values are modelled as follows.  A stored string is a tuple; *)
(* null (key absent) is the empty tuple.  A session token is <<owner,      *)
(* gen>>: the account it was issued to and how many times it has been      *)
(* refreshed.  A UserInfo object is the account name; the JavaScript value *)
(* undefined is the string "undefined".                                    *)
(***************************************************************************)
EXTENDS Integers, Sequences, FiniteSets, TLC

\* ---------------------------------------------------------------- bounds
\* Largest number of refreshes a token lineage goes through.
MaxGen == 1

\* Largest number of exchange requests one loaded page is followed through.
MaxExchange == 3

\* Largest number of status refetches followed on one loaded page.
MaxRefetch == 2

\* ---------------------------------------------------------------- values
Users == {"u1", "u2"}

Undefined == "undefined"

Absent == <<>>

Tokens == {<<u, g>> : u \in Users, g \in 0..MaxGen}

\* JSON.stringify(userInfo): an object becomes its JSON text; undefined is
\* written by localStorage.setItem as the text "undefined", which is not JSON.
Stringify(userInfo) ==
    IF userInfo = Undefined THEN <<"undefined">> ELSE <<"json", userInfo>>

\* JSON.parse succeeds exactly on JSON text.
CanParse(raw) == Len(raw) = 2 /\ raw[1] = "json"

Parse(raw) == raw[2]

RawUsers == {Stringify(u) : u \in Users \cup {Undefined}}

\* ------------------------------------------------------- backend (server)
\* POST /auth/refresh answered 200: a new token for the same account.
ServerRefresh(token) == <<token[1], token[2] + 1>>

\* GET /auth/status answered 200: the identity of the bearer token's account.
ServerUserOf(token) == token[1]

\* POST /auth/login or /auth/register answered 2xx: a fresh token.
ServerIssue(user) == <<user, 0>>

\* ---------------------------------------------------------------- state
VARIABLES
    lsToken,    \* localStorage['prism_access_token']
    lsUser,     \* localStorage['prism_user_info']
    gs,         \* the getAuthStatus call (position, locals, history)
    lg,         \* the login / register mutation
    lo,         \* the logout call
    loc,        \* window.location: path and callback query parameters
    returnUrl,  \* localStorage['instagram_return_url']
    page,       \* React state of the loaded page (App, AuthProvider, dialog)
    cb,         \* handleOAuthCallback invocations past their first await
    hist        \* what the loaded page has sent and shown so far

sessionVars == <<lsToken, lsUser, gs, lg, lo>>

oauthVars == <<loc, returnUrl, page, cb, hist>>

vars == <<lsToken, lsUser, gs, lg, lo, loc, returnUrl, page, cb, hist>>

\* ------------------------------------------------------ AuthStatus values
LoggedOut == [status |-> "logged_out", is_logged_in |-> FALSE,
              user_info |-> Undefined, tokenExpired |-> Undefined]

LoggedOutExpired == [status |-> "logged_out", is_logged_in |-> FALSE,
                     user_info |-> Undefined, tokenExpired |-> "true"]

LoggedIn(info) == [status |-> "logged_in", is_logged_in |-> TRUE,
                   user_info |-> info, tokenExpired |-> Undefined]

NoResult == [status |-> "none", is_logged_in |-> FALSE,
             user_info |-> Undefined, tokenExpired |-> Undefined]

\* The promise of getAuthStatus rejected instead of resolving.
Rejected == [status |-> "rejected", is_logged_in |-> FALSE,
             user_info |-> Undefined, tokenExpired |-> Undefined]

\* ------------------------------------------------------ store operations
\* A store is the pair of the two keys.
Store(token, user) == [token |-> token, user |-> user]

saveAuthData(token, userInfo) == Store(token, Stringify(userInfo))

clearStoredAuthData == Store(Absent, Absent)

handleTokenExpiration == clearStoredAuthData

\* Keys a step removed: present before it and absent after it.
RemovedKeys(before, after) ==
    {k \in {"token", "user"} :
        /\ (IF k = "token" THEN before.token ELSE before.user) # Absent
        /\ (IF k = "token" THEN after.token ELSE after.user) = Absent}

\* ------------------------------------------------------------ initial state
GsIdle == [pc |-> "idle", token |-> Absent, cachedUser |-> Undefined,
           activeToken |-> Absent, refreshOut |-> "none", statusOut |-> "none",
           result |-> NoResult, preToken |-> Absent, preUser |-> Absent,
           afterLogin |-> FALSE, removed |-> {}, prevExpired |-> FALSE,
           statusBearer |-> Absent,  \* bearer token of the status request sent
           logoutDuring |-> FALSE,   \* a logout cleared the store mid-call
           loginDuring |-> Absent]   \* <<store>> a login wrote mid-call

LgIdle == [pc |-> "idle", kind |-> "none", out |-> "none",
           result |-> "none", persisted |-> FALSE]

LoIdle == [pc |-> "idle", out |-> "none", result |-> "none"]

InitSession ==
    /\ lsToken = Absent
    /\ lsUser = Absent
    /\ gs = GsIdle
    /\ lg = LgIdle
    /\ lo = LoIdle

\* --------------------------------------------------------- getAuthStatus
RefreshOutcomes == {"200", "200bad", "401", "other", "throw"}

StatusOutcomes == {"200", "200nouser", "200bad", "401", "other", "throw"}

refreshToken_allExpired(currentToken, out) ==
    IF out = "200" THEN [kind |-> "token", token |-> ServerRefresh(currentToken)]
    ELSE [kind |-> "TOKEN_EXPIRED", token |-> Absent]

\* refreshToken: what the call yields for each answer of POST /auth/refresh.
\* A 200 whose body cannot be read and a thrown fetch reject with an error
\* that is not TOKEN_EXPIRED.
refreshToken(currentToken, out) ==
    IF out = "200" THEN [kind |-> "token", token |-> ServerRefresh(currentToken)]
    ELSE IF out = "401" THEN [kind |-> "TOKEN_EXPIRED", token |-> Absent]
    ELSE [kind |-> "NETWORK_ERROR", token |-> Absent]

\* Lines 89-99: the cached identity read from the store (undefined when the
\* key is absent or its text does not parse).
ReadCachedUser(raw) ==
    IF raw # Absent /\ CanParse(raw) THEN Parse(raw) ELSE Undefined

\* Lines 95-98: an unparsable cached identity is removed from the store.
StoreAfterRead(store) ==
    IF store.user # Absent /\ ~CanParse(store.user)
    THEN Store(store.token, Absent)
    ELSE store

StoreAfterRefresh_keepsIdentity(store, cachedUser, r) ==
    IF r.kind = "token"
    THEN IF cachedUser # Undefined
         THEN saveAuthData(r.token, cachedUser)
         ELSE Store(r.token, store.user)
    ELSE IF r.kind = "TOKEN_EXPIRED" THEN Store(Absent, store.user)
    ELSE store

\* Lines 104-124: the store after the refresh request resolved.
StoreAfterRefresh(store, cachedUser, r) ==
    IF r.kind = "token"
    THEN IF cachedUser # Undefined
         THEN saveAuthData(r.token, cachedUser)
         ELSE Store(r.token, store.user)
    ELSE IF r.kind = "TOKEN_EXPIRED" THEN handleTokenExpiration
    ELSE store

StoreAfterStatus_keepsCached(store, activeToken, out) ==
    IF out = "200" THEN Store(activeToken, store.user)
    ELSE IF out = "200nouser" THEN saveAuthData(activeToken, Undefined)
    ELSE IF out = "401" THEN handleTokenExpiration
    ELSE store

StoreAfterStatus_keepsIdentityOn401(store, activeToken, out) ==
    IF out = "200" THEN saveAuthData(activeToken, ServerUserOf(activeToken))
    ELSE IF out = "200nouser" THEN saveAuthData(activeToken, Undefined)
    ELSE IF out = "401" THEN Store(Absent, store.user)
    ELSE store

StoreAfterStatus_clearsOnError(store, activeToken, out) ==
    IF out = "200" THEN saveAuthData(activeToken, ServerUserOf(activeToken))
    ELSE IF out = "200nouser" THEN saveAuthData(activeToken, Undefined)
    ELSE handleTokenExpiration

\* Lines 133-168: the store after the status request resolved.
StoreAfterStatus(store, activeToken, out) ==
    IF out = "200" THEN saveAuthData(activeToken, ServerUserOf(activeToken))
    ELSE IF out = "200nouser" THEN saveAuthData(activeToken, Undefined)
    ELSE IF out = "401" THEN handleTokenExpiration
    ELSE store

CachedFallback_loggedOut(cachedUser) == LoggedOut

\* Lines 154-168: the catch block's answer.
CachedFallback(cachedUser) ==
    IF cachedUser # Undefined THEN LoggedIn(cachedUser) ELSE LoggedOut

ResultAfterStatus_expiredOnError(activeToken, cachedUser, out) ==
    IF out = "200" THEN LoggedIn(ServerUserOf(activeToken))
    ELSE IF out = "200nouser" THEN LoggedIn(Undefined)
    ELSE IF out \in {"401", "other"} THEN LoggedOutExpired
    ELSE CachedFallback(cachedUser)

ResultAfterStatus_uncaughtJson(activeToken, cachedUser, out) ==
    IF out = "200" THEN LoggedIn(ServerUserOf(activeToken))
    ELSE IF out = "200nouser" THEN LoggedIn(Undefined)
    ELSE IF out = "200bad" THEN Rejected
    ELSE IF out = "401" THEN LoggedOutExpired
    ELSE CachedFallback(cachedUser)

ResultAfterStatus_wrongField(activeToken, cachedUser, out) ==
    IF out = "200" THEN LoggedIn(Undefined)
    ELSE IF out = "200nouser" THEN LoggedIn(Undefined)
    ELSE IF out = "401" THEN LoggedOutExpired
    ELSE CachedFallback(cachedUser)

\* Lines 133-168: the AuthStatus returned after the status request resolved.
ResultAfterStatus(activeToken, cachedUser, out) ==
    IF out = "200" THEN LoggedIn(ServerUserOf(activeToken))
    ELSE IF out = "200nouser" THEN LoggedIn(Undefined)
    ELSE IF out = "401" THEN LoggedOutExpired
    ELSE CachedFallback(cachedUser)

CurStore == Store(lsToken, lsUser)

HasToken_always(token) == TRUE

\* Lines 80-87: `if (!token)` returns at once.
HasToken(token) == token # Absent

ActiveToken_original(token, r) == token

\* Lines 102-106: activeToken starts as the stored token and becomes the
\* refreshed one only when refreshToken returned.
ActiveToken(token, r) == IF r.kind = "token" THEN r.token ELSE token

\* getAuthStatus is between its first await and its return.
GetStatusInFlight == gs.pc \in {"refresh", "status"}

\* Lines 79-105: read the token and the cached identity, issue the refresh.
GetStatusStart ==
    /\ gs.pc = "idle"
    /\ LET after == IF HasToken(lsToken) THEN StoreAfterRead(CurStore) ELSE CurStore
       IN /\ lsToken' = after.token
          /\ lsUser' = after.user
          /\ gs' = [GsIdle EXCEPT
                      !.pc = IF HasToken(lsToken) THEN "refresh" ELSE "done",
                      !.token = lsToken,
                      !.cachedUser = IF HasToken(lsToken)
                                     THEN ReadCachedUser(lsUser) ELSE Undefined,
                      !.result = IF HasToken(lsToken) THEN NoResult ELSE LoggedOut,
                      !.preToken = lsToken,
                      !.preUser = lsUser,
                      !.afterLogin = lg.persisted,
                      !.prevExpired = gs.result.tokenExpired = "true",
                      !.removed = RemovedKeys(CurStore, after)]
    /\ lg' = [lg EXCEPT !.persisted = FALSE]
    /\ UNCHANGED lo

\* Lines 104-131: the refresh request resolves; on anything but 401 the
\* status request is issued with the active token.
GetStatusRefreshResponse(out) ==
    /\ gs.pc = "refresh"
    /\ out = "200" => gs.token[2] < MaxGen
    /\ LET r == refreshToken(gs.token, out)
           after == StoreAfterRefresh(CurStore, gs.cachedUser, r)
       IN /\ lsToken' = after.token
          /\ lsUser' = after.user
          /\ gs' = [gs EXCEPT
                      !.pc = IF r.kind = "TOKEN_EXPIRED" THEN "done" ELSE "status",
                      !.activeToken = ActiveToken(gs.token, r),
                      !.statusBearer = IF r.kind = "TOKEN_EXPIRED" THEN Absent
                                       ELSE ActiveToken(gs.token, r),
                      !.refreshOut = out,
                      !.result = IF r.kind = "TOKEN_EXPIRED"
                                 THEN LoggedOutExpired ELSE NoResult,
                      !.removed = gs.removed \cup RemovedKeys(CurStore, after)]
    /\ lg' = IF Store(lsToken', lsUser') = CurStore THEN lg
             ELSE [lg EXCEPT !.persisted = FALSE]
    /\ UNCHANGED lo

\* Lines 133-168: the status request resolves and getAuthStatus returns.
GetStatusStatusResponse(out) ==
    /\ gs.pc = "status"
    /\ LET after == StoreAfterStatus(CurStore, gs.activeToken, out)
       IN /\ lsToken' = after.token
          /\ lsUser' = after.user
          /\ gs' = [gs EXCEPT
                      !.pc = "done",
                      !.statusOut = out,
                      !.result = ResultAfterStatus(gs.activeToken, gs.cachedUser, out),
                      !.removed = gs.removed \cup RemovedKeys(CurStore, after)]
    /\ lg' = IF Store(lsToken', lsUser') = CurStore THEN lg
             ELSE [lg EXCEPT !.persisted = FALSE]
    /\ UNCHANGED lo

\* The caller (the status query) takes the resolved value.
GetStatusReturn ==
    /\ gs.pc = "done"
    /\ gs' = [gs EXCEPT !.pc = "idle"]
    /\ UNCHANGED <<lsToken, lsUser, lg, lo>>

\* ------------------------------------------------------ login and register
LoginOutcomes == {"ok", "rejected", "rejectedNoDetail", "throw"}

\* api/auth login/register, lines 40-77: what the call yields.
loginApi(out) ==
    IF out = "ok" THEN "response"
    ELSE IF out = "rejected" THEN "Error(detail)"
    ELSE IF out = "rejectedNoDetail" THEN "Error(fallback)"
    ELSE "Error(fetch)"

\* use-auth mutationFn, lines 35-45 and 58-70: only a returned response is
\* persisted.
StoreAfterLogin_tokenOnly(store, out, user) ==
    IF loginApi(out) = "response"
    THEN Store(ServerIssue(user), store.user)
    ELSE store

StoreAfterLogin(store, out, user) ==
    IF loginApi(out) = "response"
    THEN saveAuthData(ServerIssue(user), user)
    ELSE store

\* The mutation is started (login form or register form submitted).
LoginStart(kind) ==
    /\ lg.pc = "idle"
    /\ lg' = [lg EXCEPT !.pc = "await", !.kind = kind,
                        !.out = "none", !.result = "none"]
    /\ UNCHANGED <<lsToken, lsUser, gs, lo>>

\* The request resolves; the mutationFn persists the pair and returns.
LoginResponse(out, user) ==
    /\ lg.pc = "await"
    /\ LET after == StoreAfterLogin(CurStore, out, user)
       IN /\ lsToken' = after.token
          /\ lsUser' = after.user
    /\ lg' = [lg EXCEPT !.pc = "idle", !.out = out, !.result = loginApi(out),
                        !.persisted = IF loginApi(out) = "response" THEN TRUE
                                      ELSE lg.persisted]
    /\ gs' = IF loginApi(out) = "response"
             THEN [gs EXCEPT !.logoutDuring = FALSE,
                             !.loginDuring = IF GetStatusInFlight
                                             THEN <<Store(lsToken', lsUser')>>
                                             ELSE Absent]
             ELSE gs
    /\ UNCHANGED lo

\* ------------------------------------------------------------------ logout
LogoutOutcomes == {"ok", "error", "throw"}

LogoutRequestSettles_uncaught(out) ==
    IF out = "throw" THEN "reject" ELSE "continue"

\* Lines 192-203: the awaited fetch inside try/catch; a thrown network error
\* is caught, an error status is not an exception.
LogoutRequestSettles(out) == "continue"

\* Lines 189-192: read the token; without one no request is made.
LogoutStart ==
    /\ lo.pc = "idle"
    /\ IF lsToken # Absent
       THEN /\ lo' = [lo EXCEPT !.pc = "await", !.out = "none", !.result = "none"]
            /\ UNCHANGED <<lsToken, lsUser, lg>>
       ELSE /\ lo' = [lo EXCEPT !.pc = "done", !.out = "none", !.result = "resolved"]
            /\ lsToken' = clearStoredAuthData.token
            /\ lsUser' = clearStoredAuthData.user
            /\ lg' = [lg EXCEPT !.persisted = FALSE]
    /\ UNCHANGED gs

\* Lines 194-210: the request settles, the store is cleared, logout returns.
LogoutResponse(out) ==
    /\ lo.pc = "await"
    /\ IF LogoutRequestSettles(out) = "continue"
       THEN /\ lsToken' = clearStoredAuthData.token
            /\ lsUser' = clearStoredAuthData.user
            /\ lo' = [lo EXCEPT !.pc = "done", !.out = out, !.result = "resolved"]
            /\ lg' = [lg EXCEPT !.persisted = FALSE]
            /\ gs' = [gs EXCEPT !.logoutDuring = @ \/ GetStatusInFlight,
                                !.loginDuring = Absent]
       ELSE /\ lo' = [lo EXCEPT !.pc = "done", !.out = out, !.result = "rejected"]
            /\ UNCHANGED <<lsToken, lsUser, lg, gs>>

\* The caller (the logout mutation) takes the resolved value.
LogoutReturn ==
    /\ lo.pc = "done"
    /\ lo' = [lo EXCEPT !.pc = "idle"]
    /\ UNCHANGED <<lsToken, lsUser, gs, lg>>

\* ==========================================================================
\* OAuth callback processor
\* ==========================================================================
Paths == {"/", "/canvas"}

ParamNames == {"token", "user_id", "username"}

\* A location: pathname, the instagram_auth marker, the exchange
\* parameters present in the query string, and the rest of the query
\* string ("" when there is none).
Loc(path, auth, params) ==
    [path |-> path, auth |-> auth, params |-> params, search |-> ""]

\* window.location.pathname alone, as replaceState installs it.
PlainLoc(path) == Loc(path, "none", {})

\* A location of the application with a query of its own: the canvas page
\* is opened as /canvas/$id?sessionId=...
LocQ(path, search) == [PlainLoc(path) EXCEPT !.search = search]

\* Where the user can be when the page is first loaded.
StartLocs == {PlainLoc("/"), LocQ("/canvas", "sessionId")}

\* Where the backend's redirect can land: a success or error marker, with
\* any subset of the exchange parameters.
CallbackLocs ==
    {Loc(p, "success", ps) : p \in Paths, ps \in SUBSET ParamNames}
        \cup {Loc(p, "error", {}) : p \in Paths}

\* AuthContext value before the query has data (lines 77-80, 108).
defaultAuthStatus == LoggedOut

AuthResults == {LoggedOut, LoggedOutExpired} \cup {LoggedIn(u) : u \in Users}

\* React state right after a page load: the status query is fetching for
\* the first time, the dialog is closed, the mount effects are still to run.
FreshPage ==
    [open |-> FALSE,            \* App: instagramDialogOpen
     appEffectDone |-> FALSE,   \* App's mount effect has run
     effectDue |-> TRUE,        \* the dialog's effect has to run (deps changed)
     isLoading |-> TRUE,        \* useAuthStatus: first fetch without data
     fetching |-> TRUE,         \* useAuthStatus: a fetch is in flight
     authStatus |-> defaultAuthStatus,
     isInitialLoad |-> TRUE,    \* AuthProvider: isInitialLoad.current
     processedRef |-> FALSE,    \* the callback guard
     connecting |-> FALSE,
     loading |-> FALSE,
     status |-> "null",         \* the connection-status projection
     effLoads |-> 0,            \* loadStatus calls of the effect in flight
     connectPc |-> "idle",      \* handleConnect
     refetches |-> 0,
     adminDue |-> FALSE]        \* the Admin route's effect has to run

\* The page as loaded at a location: on /admin the Admin route is mounted
\* and its effect is to run.
FreshPageAt(l) == [FreshPage EXCEPT !.adminDue = l.path = "/admin"]

\* Effects scheduled by a render run before any other event is handled.
EffectsFlushed(p) == ~p.effectDue /\ ~p.adminDue

NoCallbacks == [exchanging |-> 0, loadingStatus |-> 0]

FreshHist == [exchangeSent |-> 0,       \* connectInstagram requests sent
              failed |-> 0,             \* ... that failed
              succeeded |-> 0,          \* ... that succeeded
              toastError |-> 0,         \* 'Failed to connect' toasts
              toastMarkerError |-> 0,   \* 'Instagram connection failed' toasts
              toastSuccess |-> 0,
              guardHit |-> FALSE,       \* a run returned at 'Already processed'
              connectFailed |-> FALSE,  \* 'Failed to start connection' shown
              deferredLoading |-> FALSE, \* a run of the open dialog returned
                                        \* at the isAuthLoading gate
              toastExpired |-> 0,       \* session-expired toasts
              arrivedBy |-> "initial",  \* what loaded the page
              adminToast |-> "none"]    \* the Admin route's redirect message

InitOAuth ==
    /\ loc \in StartLocs
    /\ returnUrl = Absent
    /\ page = FreshPage
    /\ cb = NoCallbacks
    /\ hist = FreshHist

Init == InitSession /\ InitOAuth

\* The application loaded directly on the admin route.
InitAdmin ==
    /\ InitSession
    /\ loc = PlainLoc("/admin")
    /\ returnUrl = Absent
    /\ page = FreshPageAt(loc)
    /\ cb = NoCallbacks
    /\ hist = FreshHist

\* A page load: every piece of React state starts afresh; requests of the
\* previous page are abandoned.
PageLoad(newLoc, how) ==
    /\ loc' = newLoc
    /\ page' = FreshPageAt(newLoc)
    /\ cb' = NoCallbacks
    /\ hist' = [FreshHist EXCEPT !.arrivedBy = how]

SessionSettledLoggedIn_noLoginCheck(p) == ~p.isLoading

\* pop-bar/index.tsx lines 186-194: the session gate of handleOAuthCallback.
SessionSettledLoggedIn(p) == ~p.isLoading /\ p.authStatus.is_logged_in

CanExchange_tokenOnly(p, l) ==
    /\ l.auth = "success"
    /\ ~p.processedRef
    /\ "token" \in l.params

CanExchange_noGuard(p, l) ==
    /\ l.auth = "success"
    /\ l.params = ParamNames

\* Lines 201-211: a success marker, the guard unset, all three parameters.
CanExchange(p, l) ==
    /\ l.auth = "success"
    /\ ~p.processedRef
    /\ l.params = ParamNames

GuardBeforeAwait_late(ref) == ref

\* Line 212: the guard is set before connectInstagram is awaited.
GuardBeforeAwait(ref) == TRUE

GuardAfterFailure_kept(ref) == ref

\* Line 242: the catch block resets the guard.
GuardAfterFailure(ref) == FALSE

LocAfterMarkerError_kept(l) == l

\* Line 250: replaceState({}, '', window.location.pathname).
LocAfterMarkerError(l) == PlainLoc(l.path)

\* Lines 183-260: the dialog's effect runs for the rendered open,
\* isAuthLoading and authStatus: handleOAuthCallback up to its first await,
\* then loadStatus when the session is settled and logged in.  The render
\* that changed a dependency flushes the effect before any other event is
\* handled, so every other step of the page waits for it.
RunEffect ==
    /\ page.effectDue
    /\ LET process == page.open /\ SessionSettledLoggedIn(page)
           success == process /\ loc.auth = "success"
           send == process /\ CanExchange(page, loc)
           markerError == process /\ loc.auth = "error"
           load == page.open /\ ~page.isLoading /\ page.authStatus.is_logged_in
       IN /\ send => hist.exchangeSent < MaxExchange
          /\ page' = [page EXCEPT
                        !.effectDue = FALSE,
                        !.processedRef = IF send THEN GuardBeforeAwait(@) ELSE @,
                        !.connecting = IF send THEN TRUE ELSE @,
                        !.loading = IF load THEN TRUE ELSE @,
                        !.effLoads = IF load THEN @ + 1 ELSE @]
          /\ cb' = [cb EXCEPT !.exchanging = IF send THEN @ + 1 ELSE @]
          /\ loc' = IF markerError THEN LocAfterMarkerError(loc) ELSE loc
          /\ hist' = [hist EXCEPT
                        !.exchangeSent = IF send THEN @ + 1 ELSE @,
                        !.deferredLoading = @ \/ (page.open /\ page.isLoading),
                        !.toastMarkerError = IF markerError THEN @ + 1 ELSE @,
                        !.guardHit = @ \/ (success /\ page.processedRef)]
    /\ UNCHANGED <<returnUrl, sessionVars>>

\* App lines 73-80: the mount effect opens the dialog when the location
\* carries the marker.  Effects of children run first.
AppMountEffect ==
    /\ ~page.appEffectDone
    /\ EffectsFlushed(page)
    /\ page' = [page EXCEPT !.appEffectDone = TRUE,
                            !.open = loc.auth # "none",
                            !.effectDue = loc.auth # "none"]
    /\ UNCHANGED <<loc, returnUrl, cb, hist, sessionVars>>

\* Dialog onOpenChange(false): the user closes the dialog.
CloseDialog ==
    /\ page.appEffectDone
    /\ EffectsFlushed(page)
    /\ page.open
    /\ page' = [page EXCEPT !.open = FALSE, !.effectDue = TRUE]
    /\ UNCHANGED <<loc, returnUrl, cb, hist, sessionVars>>

DepsChanged_openOnly(p, res) == FALSE

\* pop-bar/index.tsx line 260: the effect depends on open, isAuthLoading
\* and authStatus; a resolution changes the last two (the query keeps the
\* previous object when the resolved value is equal to it).
DepsChanged(p, res) == p.isLoading \/ p.authStatus # res

\* user_info?.role as the Admin route reads it.
Role(info) ==
    IF info = Undefined THEN Undefined
    ELSE IF info = "u1" THEN "admin" ELSE "user"

\* routes/admin/index.tsx line 39: the effect depends on authStatus.status
\* and authStatus.user_info?.role.
AdminDepsChanged(p, res) ==
    \/ p.authStatus.status # res.status
    \/ Role(p.authStatus.user_info) # Role(res.user_info)

ShouldToastExpired_everyResolution(p, res) == res.tokenExpired = "true"

\* AuthContext lines 89-99: the toast effect runs when
\* authStatus?.tokenExpired or isLoading changed, and shows the toast when
\* the flag is set and isInitialLoad.current is false.
ShouldToastExpired(p, res) ==
    /\ p.isLoading \/ p.authStatus.tokenExpired # res.tokenExpired
    /\ res.tokenExpired = "true"
    /\ ~p.isInitialLoad

\* use-auth lines 18-28, AuthContext lines 86-114: the status query
\* resolves; isLoading ends and authStatus becomes the resolved value; the
\* AuthProvider's toast effect runs on the new render.
QueryResolve(res) ==
    /\ page.appEffectDone
    /\ EffectsFlushed(page)
    /\ page.fetching
    /\ page' = [page EXCEPT
                  !.fetching = FALSE,
                  !.isLoading = FALSE,
                  !.authStatus = res,
                  !.isInitialLoad = FALSE,
                  !.effectDue = @ \/ DepsChanged(page, res),
                  !.adminDue = loc.path = "/admin" /\ AdminDepsChanged(page, res)]
    /\ hist' = [hist EXCEPT
                  !.toastExpired = IF ShouldToastExpired(page, res)
                                   THEN @ + 1 ELSE @]
    /\ UNCHANGED <<loc, returnUrl, cb, sessionVars>>

\* use-auth lines 25 and 46-49: refetch on window focus or invalidation;
\* the previous data stays exposed and isLoading stays false.
Refetch ==
    /\ page.appEffectDone
    /\ EffectsFlushed(page)
    /\ ~page.fetching
    /\ page.refetches < MaxRefetch
    /\ page' = [page EXCEPT !.fetching = TRUE, !.refetches = @ + 1]
    /\ UNCHANGED <<loc, returnUrl, cb, hist, sessionVars>>

StatusResults == {"connected", "expired", "notConnected", "error"}

\* Lines 216-223 and 239-245: connectInstagram settles.
ExchangeResponse(out) ==
    /\ EffectsFlushed(page)
    /\ cb.exchanging > 0
    /\ IF out = "ok"
       THEN /\ cb' = [cb EXCEPT !.exchanging = @ - 1, !.loadingStatus = @ + 1]
            /\ page' = [page EXCEPT !.loading = TRUE]
            /\ hist' = [hist EXCEPT !.succeeded = @ + 1, !.toastSuccess = @ + 1]
       ELSE /\ cb' = [cb EXCEPT !.exchanging = @ - 1]
            /\ page' = [page EXCEPT !.processedRef = GuardAfterFailure(@),
                                    !.connecting = FALSE]
            /\ hist' = [hist EXCEPT !.failed = @ + 1, !.toastError = @ + 1]
    /\ UNCHANGED <<loc, returnUrl, sessionVars>>

LoadStatusThrows_uncaught(out) == out = "error"

\* Lines 262-278: loadStatus catches a failed query and stores the error
\* projection; it never throws into its caller.
LoadStatusThrows(out) == FALSE

ShouldNavigate_wholeLocation(ret, l) ==
    /\ ret # Absent
    /\ ret[1].path # l.path \/ ret[1].search # l.search

\* Lines 226-236: a stored return location whose pathname is not the
\* current pathname.
ShouldNavigate(ret, l) ==
    /\ ret # Absent
    /\ ret[1].path # l.path

\* Lines 223-238: the awaited loadStatus settles; the return location is
\* consumed and the marker removed by navigation or in place.
CallbackLoadResponse(out) ==
    /\ EffectsFlushed(page)
    /\ cb.loadingStatus > 0
    /\ IF LoadStatusThrows(out)
       THEN /\ page' = [page EXCEPT !.processedRef = GuardAfterFailure(@),
                                    !.loading = FALSE, !.connecting = FALSE]
            /\ cb' = [cb EXCEPT !.loadingStatus = @ - 1]
            /\ hist' = [hist EXCEPT !.toastError = @ + 1]
            /\ UNCHANGED <<loc, returnUrl>>
       ELSE /\ returnUrl' = Absent
            /\ IF ShouldNavigate(returnUrl, loc)
               THEN PageLoad(returnUrl[1], "return")
               ELSE /\ loc' = PlainLoc(loc.path)
                    /\ page' = [page EXCEPT !.status = out, !.loading = FALSE,
                                            !.connecting = FALSE]
                    /\ cb' = [cb EXCEPT !.loadingStatus = @ - 1]
                    /\ hist' = hist
    /\ UNCHANGED sessionVars

\* Lines 262-278: a loadStatus call issued by the effect settles.
EffectLoadResponse(out) ==
    /\ EffectsFlushed(page)
    /\ page.effLoads > 0
    /\ page' = [page EXCEPT !.status = out, !.loading = FALSE, !.effLoads = @ - 1]
    /\ UNCHANGED <<loc, returnUrl, cb, hist, sessionVars>>

\* Lines 280-286 (and settings/dialog/instagram.tsx lines 42-48): the
\* current location is stored and the authorization URL requested.
handleConnect ==
    /\ page.appEffectDone
    /\ EffectsFlushed(page)
    /\ page.connectPc = "idle"
    /\ ~page.connecting
    /\ returnUrl' = <<loc>>
    /\ page' = [page EXCEPT !.connecting = TRUE, !.connectPc = "await"]
    /\ UNCHANGED <<loc, cb, hist, sessionVars>>

\* Lines 286-292: the browser leaves for the third party and comes back on
\* a callback location, or the request fails.
ConnectResponse(out, newLoc) ==
    /\ EffectsFlushed(page)
    /\ page.connectPc = "await"
    /\ IF out = "ok"
       THEN /\ PageLoad(newLoc, "callback")
       ELSE /\ page' = [page EXCEPT !.connecting = FALSE, !.connectPc = "idle"]
            /\ hist' = [hist EXCEPT !.connectFailed = TRUE]
            /\ UNCHANGED <<loc, cb>>
    /\ UNCHANGED <<returnUrl, sessionVars>>

\* pop-bar/index.tsx lines 325-401: what the open dialog renders for the
\* projection.  The Connect button is rendered only when the projection is
\* not connected; a connected projection, valid or not, renders Disconnect.
ConnectOffered(p) ==
    /\ p.open
    /\ ~p.loading
    /\ p.status \notin {"connected", "expired"}
    /\ ~p.connecting

\* routes/admin/index.tsx lines 25-39: the Admin route's effect.  A
\* logged_out status, or a logged_in user who is not an admin, is sent to
\* '/' with a message; the router changes the location without a page load.
AdminEffect ==
    /\ page.adminDue
    /\ loc.path = "/admin"
    /\ LET st == page.authStatus
           msg == IF st.status = "logged_out" THEN "login"
                  ELSE IF st.status = "logged_in" /\ Role(st.user_info) # "admin"
                  THEN "admin" ELSE "none"
       IN /\ page' = [page EXCEPT !.adminDue = FALSE]
          /\ hist' = [hist EXCEPT !.adminToast = IF msg # "none" THEN msg ELSE @]
          /\ loc' = IF msg # "none" THEN PlainLoc("/") ELSE loc
    /\ UNCHANGED <<returnUrl, cb, sessionVars>>

\* ------------------------------------------------------------ specifications
NextSession ==
    \/ GetStatusStart /\ UNCHANGED oauthVars
    \/ \E out \in RefreshOutcomes : GetStatusRefreshResponse(out) /\ UNCHANGED oauthVars
    \/ \E out \in StatusOutcomes : GetStatusStatusResponse(out) /\ UNCHANGED oauthVars
    \/ GetStatusReturn /\ UNCHANGED oauthVars
    \/ \E kind \in {"login", "register"} : LoginStart(kind) /\ UNCHANGED oauthVars
    \/ \E out \in LoginOutcomes, u \in Users : LoginResponse(out, u) /\ UNCHANGED oauthVars
    \/ LogoutStart /\ UNCHANGED oauthVars
    \/ \E out \in LogoutOutcomes : LogoutResponse(out) /\ UNCHANGED oauthVars
    \/ LogoutReturn /\ UNCHANGED oauthVars

NextOAuth ==
    \/ RunEffect
    \/ AppMountEffect
    \/ CloseDialog
    \/ \E res \in AuthResults : QueryResolve(res)
    \/ Refetch
    \/ \E out \in {"ok", "fail"} : ExchangeResponse(out)
    \/ \E out \in StatusResults : CallbackLoadResponse(out)
    \/ \E out \in StatusResults : EffectLoadResponse(out)
    \/ handleConnect
    \/ \E out \in {"ok", "fail"}, l \in CallbackLocs : ConnectResponse(out, l)

\* The session manager alone.
Spec == Init /\ [][NextSession]_vars

\* The OAuth callback processor with the session context it reads.
SpecOAuth == Init /\ [][NextOAuth]_vars

\* The same, with React's guarantee that a scheduled effect is run.
SpecOAuthFair == SpecOAuth /\ WF_vars(RunEffect)

NextAdmin ==
    \/ AdminEffect
    \/ NextOAuth

\* The application loaded on the admin route.
SpecAdmin == InitAdmin /\ [][NextAdmin]_vars

\* ==========================================================================
\* Properties of the session manager (checked under Spec)
\* ==========================================================================
StatusRequestFailed(out) == out \in {"other", "throw"}

\* C1: when the refresh request is answered 401, getStatus returns
\* logged_out with is_logged_in false and tokenExpired true, and at its
\* return the store holds neither the token nor the cached identity.
C1_RefreshExpiredClears ==
    [][(gs.pc = "refresh" /\ gs'.refreshOut = "401")
         => /\ gs'.pc = "done"
            /\ gs'.result = LoggedOutExpired
            /\ lsToken' = Absent
            /\ lsUser' = Absent]_vars

C1_Witness ==
    /\ gs.pc = "done"
    /\ gs.refreshOut = "401"
    /\ gs.preToken # Absent
    /\ gs.preUser # Absent
    /\ gs.result.tokenExpired = "true"
    /\ lsToken = Absent
    /\ lsUser = Absent

\* C2: when the status request throws or is answered with a code other
\* than 200 and 401, getStatus returns logged_in with the cached identity
\* if the store held a (parsable) cached identity when it was called, and
\* logged_out without tokenExpired otherwise.
C2_StatusFailureFallback ==
    [][(gs.pc = "status" /\ StatusRequestFailed(gs'.statusOut))
         => /\ gs'.pc = "done"
            /\ gs'.result = IF gs.preUser # Absent /\ CanParse(gs.preUser)
                            THEN LoggedIn(Parse(gs.preUser))
                            ELSE LoggedOut]_vars

C2_Witness ==
    /\ gs.pc = "done"
    /\ StatusRequestFailed(gs.statusOut)
    /\ gs.preUser \in {Stringify(u) : u \in Users}
    /\ gs.result = LoggedIn(Parse(gs.preUser))

\* C3 as stated: a call whose status request failed has removed no key
\* that was present.
C3_Original ==
    (gs.pc = "done" /\ StatusRequestFailed(gs.statusOut)) => gs.removed = {}

\* C3 amended: a call whose status request failed has not removed the
\* session token, and has removed the cached identity only if its stored
\* text was unparsable when the call read it.
C3_StatusFailureKeepsState ==
    (gs.pc = "done" /\ StatusRequestFailed(gs.statusOut))
        => /\ "token" \notin gs.removed
           /\ "user" \in gs.removed => ~CanParse(gs.preUser)

C3_Witness ==
    /\ gs.pc = "done"
    /\ StatusRequestFailed(gs.statusOut)
    /\ gs.refreshOut = "200"
    /\ CanParse(gs.preUser)
    /\ gs.removed = {}
    /\ lsToken = gs.activeToken
    /\ lsUser = gs.preUser

\* C4: whatever the outcome of the request to the logout endpoint, logout
\* returns normally and at its return the store holds neither the token nor
\* the cached identity.
C4_LogoutAlwaysClears ==
    [][(lo.pc # "done" /\ lo'.pc = "done")
         => /\ lo'.result = "resolved"
            /\ lsToken' = Absent
            /\ lsUser' = Absent]_vars

C4_Witness ==
    /\ lo.pc = "done"
    /\ lo.out = "throw"
    /\ lo.result = "resolved"
    /\ lsToken = Absent
    /\ lsUser = Absent

\* C8: a getStatus call made right after a login persisted its token and
\* identity, whose refresh and status requests both succeed, returns
\* logged_in with the identity the login persisted.
C8_StatusAfterLogin ==
    (gs.pc = "done" /\ gs.afterLogin /\ gs.refreshOut = "200" /\ gs.statusOut = "200")
        => gs.result = LoggedIn(Parse(gs.preUser))

C8_Witness ==
    /\ gs.pc = "done"
    /\ gs.afterLogin
    /\ gs.refreshOut = "200"
    /\ gs.statusOut = "200"
    /\ gs.result.status = "logged_in"
    /\ gs.result.user_info \in Users

\* C9: a step of getStatus removes the session token exactly when it
\* handles a 401 answer (of the refresh or of the status request); no other
\* outcome removes it.
C9_TokenRemovedOnlyOn401 ==
    [][(gs'.pc # gs.pc)
         => LET got401 == \/ gs.pc = "refresh" /\ gs'.refreshOut = "401"
                          \/ gs.pc = "status" /\ gs'.statusOut = "401"
            IN /\ got401 => lsToken' = Absent
               /\ (lsToken # Absent /\ lsToken' = Absent) => got401]_vars

C9_Witness ==
    /\ gs.pc = "done"
    /\ gs.statusOut = "401"
    /\ gs.refreshOut \in {"other", "throw", "200bad"}
    /\ "token" \in gs.removed
    /\ lsToken = Absent

\* ==========================================================================
\* Properties of the OAuth callback processor (checked under SpecOAuth)
\* ==========================================================================
\* The dialog's effect ran in this step.
EffectRan == page.effectDue /\ ~page'.effectDue

\* C5: while an exchange request is in flight, a further run of the
\* detection logic sends no second request: the guard was set before the
\* first await.
C5_NoSecondExchangeInFlight ==
    [][cb.exchanging > 0 => hist'.exchangeSent <= hist.exchangeSent]_vars

C5_Witness ==
    /\ hist.guardHit
    /\ cb.exchanging = 1
    /\ hist.exchangeSent = 1
    /\ page.processedRef
    /\ loc.auth = "success"
    /\ loc.params = ParamNames

\* C6: a failed exchange resets the guard, and the next run of the
\* detection logic on the same redirect (dialog open, session settled and
\* logged in) sends a new exchange request.
C6_FailureReleasesGuard ==
    [][/\ hist'.failed > hist.failed => ~page'.processedRef
       /\ (/\ EffectRan
           /\ page.open
           /\ SessionSettledLoggedIn(page)
           /\ CanExchange([page EXCEPT !.processedRef = FALSE], loc)
           /\ hist.failed > 0
           /\ cb.exchanging = 0
           /\ cb.loadingStatus = 0)
          => hist'.exchangeSent = hist.exchangeSent + 1]_vars

C6_Witness ==
    /\ hist.failed = 1
    /\ hist.exchangeSent = 2
    /\ cb.exchanging = 1
    /\ page.processedRef

\* C7 as stated: one loaded page sends the exchange request for its
\* redirect at most once.
C7_Original == hist.exchangeSent <= 1

\* C7 amended: one loaded page never has two exchange requests in flight,
\* sends a further one only after the previous one failed, and at most one
\* of its requests succeeds.
C7_AtMostOnceUnlessFailed ==
    /\ cb.exchanging <= 1
    /\ hist.exchangeSent <= hist.failed + 1
    /\ hist.succeeded <= 1

C7_Witness ==
    /\ hist.exchangeSent = 2
    /\ hist.failed = 1
    /\ hist.succeeded = 1
    /\ hist.guardHit

DeferredThenSettled ==
    /\ loc.auth = "success"
    /\ loc.params = ParamNames
    /\ hist.deferredLoading
    /\ SessionSettledLoggedIn(page)

C12_ErrorMarkerTerminal ==
    [][/\ hist'.toastMarkerError <= 1
       /\ (EffectRan /\ loc.auth = "error" /\ page.open
                /\ SessionSettledLoggedIn(page))
            => /\ hist'.toastMarkerError = hist.toastMarkerError + 1
               /\ loc'.auth = "none"
               /\ loc'.path = loc.path
               /\ hist'.exchangeSent = 0
               /\ cb'.exchanging = 0
               /\ ~page'.processedRef]_vars

C12_Witness ==
    /\ hist.toastMarkerError = 1
    /\ loc.auth = "none"
    /\ page.open
    /\ ~page.effectDue
    /\ page.refetches >= 1
    /\ page.effLoads = 2
    /\ hist.exchangeSent = 0
    /\ ~page.processedRef

\* C13: on a success marker with any of the three exchange parameters
\* missing, the processor sends no exchange request, shows no message and
\* leaves the guard unset.
C13_MalformedAbortsSilently ==
    (loc.auth = "success" /\ loc.params # ParamNames)
        => /\ hist.exchangeSent = 0
           /\ cb.exchanging = 0
           /\ hist.toastError = 0
           /\ hist.toastSuccess = 0
           /\ hist.toastMarkerError = 0
           /\ ~page.processedRef
           /\ ~page.connecting \/ page.connectPc = "await"

C13_Witness ==
    /\ loc.auth = "success"
    /\ loc.params = {"token", "username"}
    /\ page.open
    /\ SessionSettledLoggedIn(page)
    /\ ~page.effectDue
    /\ page.effLoads >= 1
    /\ hist.exchangeSent = 0
    /\ ~page.processedRef

\* A step that loads a page: the mount effects are to run again.
PageLoaded == page.appEffectDone /\ ~page'.appEffectDone

\* The step at which a successful exchange is completed: the awaited
\* loadStatus settles and the processor navigates or strips in place.
CallbackCompleted ==
    /\ cb.loadingStatus > 0
    /\ \/ ~PageLoaded /\ cb'.loadingStatus = cb.loadingStatus - 1
       \/ PageLoaded /\ returnUrl # Absent /\ returnUrl' = Absent

\* The step at which an error marker is processed.
ErrorMarkerProcessed ==
    /\ EffectRan
    /\ hist'.toastMarkerError = hist.toastMarkerError + 1

\* C14: once the processor has processed a callback, the location carries
\* no callback query parameter, whether it got there by in-place replacement
\* or by navigating to the stored return location.
C14_LocationCleanAfterProcessing ==
    [][(CallbackCompleted \/ ErrorMarkerProcessed)
         => /\ loc'.auth = "none"
            /\ loc'.params = {}]_vars

\* C15 as stated: on exchange success the processor navigates to the stored
\* return location whenever it differs from the current location without
\* its callback parameters, and strips the marker in place otherwise.
C15_Original ==
    [][CallbackCompleted
         => IF /\ returnUrl # Absent
               /\ \/ returnUrl[1].path # loc.path
                  \/ returnUrl[1].search # loc.search
            THEN /\ loc' = returnUrl[1]
                 /\ PageLoaded
            ELSE /\ loc'.path = loc.path
                 /\ loc'.auth = "none"
                 /\ ~PageLoaded]_vars

\* C15 amended: on exchange success the processor navigates to the stored
\* return location whenever one is stored and its pathname differs from the
\* current pathname; otherwise it replaces the location in place by the
\* current pathname alone.  Either way the stored return location is
\* consumed.
C15_ReturnByPathname ==
    [][CallbackCompleted
         => /\ returnUrl' = Absent
            /\ IF returnUrl # Absent /\ returnUrl[1].path # loc.path
               THEN /\ loc' = returnUrl[1]
                    /\ PageLoaded
               ELSE /\ loc' = PlainLoc(loc.path)
                    /\ ~PageLoaded]_vars

C15_Witness ==
    /\ hist.arrivedBy = "return"
    /\ loc = LocQ("/canvas", "sessionId")
    /\ returnUrl = Absent
    /\ page.appEffectDone
    /\ ~page.open

\* C16: while the initial status query is in flight the AuthStatus exposed
\* by the auth context has status pending.
C16_PendingWhileInitialQuery ==
    page.isLoading => page.authStatus.status = "pending"

\* C17: the AuthStatus of the resolution that follows one which returned
\* tokenExpired carries tokenExpired only if that resolution itself was
\* answered 401 (by the refresh or by the status request).
C17_TokenExpiredNotSticky ==
    (gs.pc = "done" /\ gs.prevExpired /\ gs.result.tokenExpired = "true")
        => (gs.refreshOut = "401" \/ gs.statusOut = "401")

C17_Witness ==
    /\ gs.pc = "done"
    /\ gs.prevExpired
    /\ gs.preToken # Absent
    /\ gs.statusOut = "other"
    /\ gs.result.status = "logged_in"
    /\ gs.result.tokenExpired = Undefined

\* The step at which the status query resolves.
QueryResolved == page.fetching /\ ~page'.fetching

C19_GetStatusNeverRejects ==
    gs.pc = "done"
        => /\ gs.result # Rejected
           /\ gs.result.status \in {"logged_in", "logged_out"}
           /\ gs.result.is_logged_in <=> gs.result.status = "logged_in"

C19_Witness ==
    /\ gs.pc = "done"
    /\ gs.refreshOut = "throw"
    /\ gs.statusOut = "200bad"
    /\ gs.preUser # Absent
    /\ ~CanParse(gs.preUser)
    /\ gs.result = LoggedOut

\* The identity a 200 response carries: user_info, or undefined when the
\* body has none.
ResponseIdentity(token, out) ==
    IF out = "200" THEN ServerUserOf(token) ELSE Undefined

\* C20: when the status request is answered 200, getStatus returns
\* logged_in with the identity of that response, and at its return the store
\* holds the token sent on that request (the refreshed one if the refresh
\* succeeded) with that identity, whatever identity was cached.
C20_Status200Persists ==
    [][(gs.pc = "status" /\ gs'.statusOut \in {"200", "200nouser"})
         => LET sent == IF gs.refreshOut = "200"
                        THEN ServerRefresh(gs.token) ELSE gs.token
                id == ResponseIdentity(sent, gs'.statusOut)
            IN /\ gs'.pc = "done"
               /\ gs'.result = LoggedIn(id)
               /\ lsToken' = sent
               /\ lsUser' = Stringify(id)]_vars

C20_Witness ==
    /\ gs.pc = "done"
    /\ gs.refreshOut = "200"
    /\ gs.statusOut = "200"
    /\ gs.preUser # Absent
    /\ gs.preUser # lsUser
    /\ lsToken # gs.preToken
    /\ lsToken = gs.activeToken
    /\ CanParse(lsUser)
    /\ Parse(lsUser) = gs.result.user_info

\* C21: within one getStatus call the status request is issued only after
\* the refresh request has resolved; its bearer is the refreshed token when
\* the refresh answered 200 and the token read from the store when the
\* refresh failed otherwise; none is issued when the refresh answered 401.
C21_StatusAfterRefresh ==
    /\ gs.statusBearer # Absent
         => /\ gs.refreshOut \notin {"none", "401"}
            /\ gs.statusBearer = IF gs.refreshOut = "200"
                                 THEN ServerRefresh(gs.token) ELSE gs.token
    /\ gs.pc = "status" \/ gs.statusOut # "none" => gs.statusBearer # Absent
    /\ gs.refreshOut \in {"none", "401"}
         => /\ gs.statusBearer = Absent
            /\ gs.statusOut = "none"
            /\ gs.pc # "status"

C21_Witness ==
    /\ gs.pc = "status"
    /\ gs.refreshOut = "200"
    /\ gs.statusBearer = ServerRefresh(gs.preToken)
    /\ gs.statusBearer # gs.preToken

\* C22: when no session token is stored, getStatus returns logged_out
\* without tokenExpired, issues no request and leaves the store as it was.
C22_NoTokenNoRequest ==
    [][(gs.pc = "idle" /\ gs'.pc # "idle" /\ lsToken = Absent)
         => /\ gs'.pc = "done"
            /\ gs'.result = LoggedOut
            /\ gs'.refreshOut = "none"
            /\ gs'.statusOut = "none"
            /\ gs'.statusBearer = Absent
            /\ lsToken' = lsToken
            /\ lsUser' = lsUser]_vars

C22_Witness ==
    /\ gs.pc = "done"
    /\ gs.prevExpired
    /\ gs.preToken = Absent
    /\ gs.result = LoggedOut
    /\ gs.refreshOut = "none"
    /\ lsToken = Absent

\* C23: a login (or registration) whose request succeeds stores exactly the
\* token and identity the server returned and returns them; one the server
\* rejects signals an error with the server's message, or the localized
\* fallback when there is none, and leaves the store unchanged.
C23_LoginStoresOrSignals ==
    [][(lg.pc = "await" /\ lg'.pc = "idle")
         => IF lg'.out = "ok"
            THEN /\ lg'.result = "response"
                 /\ \E u \in Users : /\ lsToken' = ServerIssue(u)
                                      /\ lsUser' = Stringify(u)
            ELSE /\ lg'.result = IF lg'.out = "rejected" THEN "Error(detail)"
                                 ELSE IF lg'.out = "rejectedNoDetail"
                                 THEN "Error(fallback)" ELSE "Error(fetch)"
                 /\ lsToken' = lsToken
                 /\ lsUser' = lsUser]_vars

C23_Witness ==
    /\ lg.pc = "idle"
    /\ lg.kind = "login"
    /\ lg.out = "rejectedNoDetail"
    /\ lg.result = "Error(fallback)"
    /\ lsToken = ServerIssue("u2")
    /\ lsUser = Stringify("u2")

\* C25: if logout cleared the store while a getStatus call that had read
\* the token was in flight, then once both have finished the store holds
\* neither the token nor the cached identity.
C25_LogoutWinsOverGetStatus ==
    (gs.logoutDuring /\ ~GetStatusInFlight /\ lo.pc # "await")
        => /\ lsToken = Absent
           /\ lsUser = Absent

\* C26: if a login stored a token and identity while a getStatus call that
\* had read the previous (different) token was in flight, then once both
\* have finished the store holds what the login stored.
C26_LoginWinsOverGetStatus ==
    (/\ gs.loginDuring # Absent
     /\ gs.loginDuring[1].token # gs.token
     /\ ~GetStatusInFlight
     /\ lg.pc = "idle")
        => CurStore = gs.loginDuring[1]

\* C27: in every state reachable from the empty store by interleavings of
\* login, register, logout and getStatus, the cached identity is present
\* only if the session token is present.
C27_IdentityOnlyWithToken == lsUser # Absent => lsToken # Absent

C27_Witness ==
    /\ gs.logoutDuring
    /\ ~GetStatusInFlight
    /\ gs.statusOut = "200"
    /\ lo.pc = "idle"
    /\ lsUser # Absent
    /\ lsToken # Absent

\* C24: whenever the projection shown by the open dialog is connected with
\* valid = false, the dialog offers an enabled action that starts the
\* connect flow.
C24_ReconnectOffered ==
    (page.open /\ ~page.loading /\ ~page.connecting /\ page.status = "expired")
        => ConnectOffered(page)

\* C28: after a successful exchange, once the status query issued after
\* the exchange has returned, a response to a status query the effect
\* issued earlier (without any refetch, every query of the effect was
\* issued no later than the exchange) does not change the projection.
C28_FreshStatusWins ==
    [][(/\ hist.succeeded > 0
        /\ hist'.succeeded > 0
        /\ cb.loadingStatus = 0
        /\ page.refetches = 0
        /\ page'.effLoads = page.effLoads - 1)
         => page'.status = page.status]_vars

\* C29: the Admin route does not redirect to '/' with its login-required
\* message while the initial status query is still in flight.
C29_NoRedirectBeforeResolution ==
    [][(hist.adminToast = "none" /\ hist'.adminToast = "login")
         => ~page.isLoading]_vars

\* C30: once the exchange request has succeeded, the guard stays set for
\* the rest of the page load and no later step of the success path reports
\* a failure, whatever the stored return location and the outcome of the
\* status refresh.
C30_GuardKeptAfterSuccess ==
    [][(hist.succeeded > 0 /\ hist'.succeeded > 0)
         => /\ page.processedRef
            /\ page'.processedRef
            /\ hist'.toastError = hist.toastError]_vars

C30_Witness ==
    /\ hist.succeeded = 1
    /\ cb.loadingStatus = 0
    /\ page.refetches = 0
    /\ page.effLoads = 1
    /\ page.status = "error"
    /\ hist.toastError = 0
    /\ page.processedRef
    /\ loc.auth = "none"

====
